---- MODULE Spec2Model ----
(***************************************************************************)
(* The coalescing cache connector of src/src/cache-connector.js: pending   *)
(* set/get/delete maps, the deferred flush queued with process.nextTick,   *)
(* the forced flush on a same-kind collision, the pipeline built by        *)
(* flush() and the callbacks the store invokes for each command.           *)
(***************************************************************************)
EXTENDS Integers, Sequences, FiniteSets, TLC

\* ---------------------------------------------------------------- bounds
MaxOps == 3             \* registrations (set/get/delete calls) in one run

Keys == {"a", "b"}

\* JavaScript values handed to set(): two JSON-representable values, one the
\* codec maps lossily (NaN is written as the text null) and one JSON.stringify
\* throws on (a circular structure).
Values == {"v1", "v2", "nan", "circ"}

Null == "null"                 \* JavaScript null
Undefined == "undefined"       \* JavaScript undefined
StoreErr == "StoreErr"         \* an error value reported by the store
SyntaxError == "SyntaxError"   \* the error JSON.parse throws
Garbage == "garbage"           \* stored text that is not JSON

Ttl == 5                       \* a positive options.ttl
TtlOptions == {<<>>, <<0>>, <<Ttl>>}   \* absent, zero, positive

VARIABLES
    sets,        \* this.sets: sequence of [key, value, callback], insertion order
    gets,        \* this.gets: sequence of [key, callback]
    deletes,     \* this.deletes: sequence of [key, callback]
    timeoutSet,  \* this.timeoutSet
    tickQueue,   \* number of process.nextTick(this.flush) callbacks queued
    ttl,         \* this.options.ttl
    store,       \* content of the key-value store
    batches,     \* every pipeline handed to exec(), in order
    replies,     \* replies[b]: the store's answers to batch b so far, in order
    failed,      \* indices of batches whose exec() failed as a whole
    reg,         \* every registration call made so far
    calls,       \* calls[cb]: argument lists the callback cb was invoked with
    ticks        \* number of deferred triggers that have fired

vars == <<sets, gets, deletes, timeoutSet, tickQueue, ttl, store, batches,
          replies, failed, reg, calls, ticks>>

\* ------------------------------------------------------------- Map helpers
Indices(m) == 1..Len(m)

\* Map.prototype.has
MapHas(m, key) == \E i \in Indices(m) : m[i].key = key

\* Map.prototype.delete
MapDeleteNone(m, key) == m

MapDelete(m, key) == SelectSeq(m, LAMBDA e : e.key # key)

\* Map.prototype.set: an existing key keeps its position, a new one is appended
MapSet(m, entry) ==
    IF MapHas(m, entry.key)
    THEN [i \in Indices(m) |-> IF m[i].key = entry.key THEN entry ELSE m[i]]
    ELSE Append(m, entry)

\* ------------------------------------------------------------------- codec
\* JSON.stringify throws a TypeError on a circular structure
StringifyThrows(value) == value = "circ"

JSONstringify(value) ==
    CASE value = "v1" -> "s1"
      [] value = "v2" -> "s2"
      [] value = "nan" -> "snull"
      [] OTHER -> Undefined

\* JSON.parse throws a SyntaxError on text that is not JSON
ParseThrows(text) == text \notin {"s1", "s2", "snull"}

JSONparse(text) ==
    CASE text = "s1" -> "v1"
      [] text = "s2" -> "v2"
      [] OTHER -> Null

\* if (this.options.ttl)
Truthy(t) == t # <<>> /\ t[1] # 0

\* ------------------------------------------------------------------- flush
\* pipeline.setex(key, ttl, value, callback) or pipeline.set(key, value, callback)
setCommandPlain(entry, t) ==
    [op |-> "set", key |-> entry.key, exp |-> <<>>,
     arg |-> JSONstringify(entry.value), cb |-> entry.callback]

setCommand(entry, t) ==
    [op |-> IF Truthy(t) THEN "setex" ELSE "set",
     key |-> entry.key,
     exp |-> IF Truthy(t) THEN t ELSE <<>>,
     arg |-> JSONstringify(entry.value),
     cb |-> entry.callback]

\* pipeline.del(key, callback)
delCommand(entry) ==
    [op |-> "del", key |-> entry.key, exp |-> <<>>, arg |-> Null,
     cb |-> entry.callback]

\* pipeline.get(key, (error, result) => ...)
getCommand(entry) ==
    [op |-> "get", key |-> entry.key, exp |-> <<>>, arg |-> Null,
     cb |-> entry.callback]

\* The commands flush() appends: the sets loop, the deletes loop, the gets loop
pipelineGetsFirst(s, d, g, t) ==
    [i \in Indices(g) |-> getCommand(g[i])]
      \o [i \in Indices(s) |-> setCommand(s[i], t)]
      \o [i \in Indices(d) |-> delCommand(d[i])]

pipeline(s, d, g, t) ==
    [i \in Indices(s) |-> setCommand(s[i], t)]
      \o [i \in Indices(d) |-> delCommand(d[i])]
      \o [i \in Indices(g) |-> getCommand(g[i])]

\* JSON.stringify in the sets loop throws before anything is cleared or exec'd
flushThrows(s) == \E i \in Indices(s) : StringifyThrows(s[i].value)

\* flush(): the maps it leaves behind, whether it threw, and the batch it
\* handed to exec() (none when it threw)
flush(s, d, g, t) ==
    IF flushThrows(s)
    THEN [threw |-> TRUE, sets |-> s, deletes |-> d, gets |-> g, cmds |-> <<>>]
    ELSE [threw |-> FALSE, sets |-> <<>>, deletes |-> <<>>, gets |-> <<>>,
          cmds |-> pipeline(s, d, g, t)]

\* a registration that found no conflict does not flush
noFlush(s, d, g) ==
    [threw |-> FALSE, sets |-> s, deletes |-> d, gets |-> g, cmds |-> <<>>]

\* scheduleFlush(): queue a trigger unless the flag is set
scheduleFlush(armed, queue) == IF ~armed THEN queue + 1 ELSE queue

\* the conflict tests of set, get and delete
setConflictNever(s, g, d, key) == FALSE
setConflict(s, g, d, key) == MapHas(s, key)
getConflictAnyKind(s, g, d, key) == MapHas(g, key) \/ MapHas(s, key)
getConflict(s, g, d, key) == MapHas(g, key)
deleteConflict(s, g, d, key) == MapHas(d, key)

\* the callback wrapper of a read command
getCompletionNotFound(error, result) ==
    IF result = Null THEN <<IF error = Null THEN "NotFound" ELSE error, Null>>
    ELSE IF ParseThrows(result) THEN <<SyntaxError>>
    ELSE <<Null, JSONparse(result)>>

getCompletionDecodeValue(error, result) ==
    IF result = Null THEN <<error, Null>>
    ELSE IF ParseThrows(result) THEN <<SyntaxError, result>>
    ELSE <<Null, JSONparse(result)>>

getCompletionKeepError(error, result) ==
    IF result = Null THEN <<error, Null>>
    ELSE IF ParseThrows(result) THEN <<SyntaxError>>
    ELSE <<error, JSONparse(result)>>

getCompletion(error, result) ==
    IF result = Null THEN <<error, Null>>
    ELSE IF ParseThrows(result) THEN <<SyntaxError>>
    ELSE <<Null, JSONparse(result)>>

\* ------------------------------------------------------------------- state
Init ==
    /\ sets = <<>>
    /\ gets = <<>>
    /\ deletes = <<>>
    /\ timeoutSet = FALSE
    /\ tickQueue = 0
    /\ ttl \in TtlOptions
    \* key a holds text written by someone else that is not JSON, b is absent
    /\ store = [k \in Keys |-> IF k = "a" THEN Garbage ELSE Null]
    /\ batches = <<>>
    /\ replies = <<>>
    /\ failed = {}
    /\ reg = <<>>
    /\ calls = <<>>
    /\ ticks = 0

\* Bookkeeping shared by the three registration calls: f is the outcome of the
\* (possible) forced flush, ins the maps after the insertion.
Register(op, key, value, conflict, f, ins) ==
    /\ reg' = Append(reg, [op |-> op, key |-> key, value |-> value,
                           forced |-> conflict, threw |-> f.threw,
                           epoch |-> ticks])
    /\ calls' = Append(calls, <<>>)
    /\ IF f.threw
       THEN /\ sets' = f.sets
            /\ gets' = f.gets
            /\ deletes' = f.deletes
            /\ timeoutSet' = FALSE
            /\ UNCHANGED <<tickQueue, batches, replies>>
       ELSE /\ sets' = ins.sets
            /\ gets' = ins.gets
            /\ deletes' = ins.deletes
            /\ timeoutSet' = TRUE
            /\ tickQueue' = scheduleFlush(IF conflict THEN FALSE ELSE timeoutSet,
                                          tickQueue)
            /\ IF conflict
               THEN /\ batches' = Append(batches, [cmds |-> f.cmds,
                                                   forced |-> TRUE,
                                                   epoch |-> ticks])
                    /\ replies' = Append(replies, <<>>)
               ELSE UNCHANGED <<batches, replies>>
    /\ UNCHANGED <<ttl, store, failed, ticks>>

set(key, value) ==
    /\ Len(reg) < MaxOps
    /\ LET conflict == setConflict(sets, gets, deletes, key)
           f == IF conflict THEN flush(sets, deletes, gets, ttl)
                ELSE noFlush(sets, deletes, gets)
           entry == [key |-> key, value |-> value, callback |-> Len(reg) + 1]
       IN Register("set", key, value, conflict, f,
                   [sets |-> MapSet(f.sets, entry), gets |-> f.gets,
                    deletes |-> f.deletes])

get(key) ==
    /\ Len(reg) < MaxOps
    /\ LET conflict == getConflict(sets, gets, deletes, key)
           f == IF conflict THEN flush(sets, deletes, gets, ttl)
                ELSE noFlush(sets, deletes, gets)
           entry == [key |-> key, callback |-> Len(reg) + 1]
       IN Register("get", key, Null, conflict, f,
                   [sets |-> f.sets, gets |-> MapSet(f.gets, entry),
                    deletes |-> f.deletes])

delete(key) ==
    /\ Len(reg) < MaxOps
    /\ LET dropped == MapDelete(sets, key)
           conflict == deleteConflict(sets, gets, deletes, key)
           f == IF conflict THEN flush(dropped, deletes, gets, ttl)
                ELSE noFlush(dropped, deletes, gets)
           entry == [key |-> key, callback |-> Len(reg) + 1]
       IN Register("delete", key, Null, conflict, f,
                   [sets |-> f.sets, gets |-> f.gets,
                    deletes |-> MapSet(f.deletes, entry)])

\* A queued process.nextTick(this.flush) callback runs. When JSON.stringify
\* throws, the exception is uncaught in the tick and nothing is submitted.
nextTick ==
    /\ tickQueue > 0
    /\ tickQueue' = tickQueue - 1
    /\ ticks' = ticks + 1
    /\ timeoutSet' = FALSE
    /\ LET f == flush(sets, deletes, gets, ttl)
       IN /\ sets' = f.sets
          /\ gets' = f.gets
          /\ deletes' = f.deletes
          /\ IF f.threw
             THEN UNCHANGED <<batches, replies>>
             ELSE /\ batches' = Append(batches, [cmds |-> f.cmds,
                                                 forced |-> FALSE,
                                                 epoch |-> ticks])
                  /\ replies' = Append(replies, <<>>)
    /\ UNCHANGED <<ttl, store, failed, reg, calls>>

\* ------------------------------------------------------------------- store
\* The batches the store still owes answers for, and the first of them
Open(b) == b \notin failed /\ Len(replies[b]) < Len(batches[b].cmds)
HasOpen == \E b \in Indices(batches) : Open(b)
HeadBatch == CHOOSE b \in Indices(batches) :
            Open(b) /\ \A c \in Indices(batches) : Open(c) => b <= c
HeadCmd == batches[HeadBatch].cmds[Len(replies[HeadBatch]) + 1]

\* what a read command may yield next to a given error value
ReadResults(error, stored) ==
    IF error = Null THEN {stored} ELSE {stored, Null, Undefined}

\* The store answers the next command of the oldest open batch: the core's
\* per-command callback runs with (error, result).
storeAnswers ==
    /\ HasOpen
    /\ LET b == HeadBatch
           cmd == HeadCmd
       IN \E error \in {Null, StoreErr} :
          \E result \in IF cmd.op = "get" THEN ReadResults(error, store[cmd.key])
                        ELSE {Undefined} :
            /\ replies' = [replies EXCEPT ![b] =
                             Append(@, [error |-> error, result |-> result])]
            /\ store' = IF error # Null \/ cmd.op = "get" THEN store
                        ELSE [store EXCEPT ![cmd.key] =
                                IF cmd.op = "del" THEN Null ELSE cmd.arg]
            /\ calls' = [calls EXCEPT ![cmd.cb] =
                           Append(@, IF cmd.op = "get"
                                     THEN getCompletion(error, result)
                                     ELSE <<error>>)]
    /\ UNCHANGED <<sets, gets, deletes, timeoutSet, tickQueue, ttl, batches,
                   failed, reg, ticks>>

\* pipeline.exec() fails as a whole before any command was answered; flush()
\* passes exec() no callback and does not look at what it returns.
execFails ==
    /\ HasOpen
    /\ replies[HeadBatch] = <<>>
    /\ failed' = failed \cup {HeadBatch}
    /\ UNCHANGED <<sets, gets, deletes, timeoutSet, tickQueue, ttl, store,
                   batches, replies, reg, calls, ticks>>

Next ==
    \/ \E key \in Keys, value \in Values : set(key, value)
    \/ \E key \in Keys : get(key)
    \/ \E key \in Keys : delete(key)
    \/ nextTick
    \/ storeAnswers
    \/ execFails

Spec == Init /\ [][Next]_vars

\* The connector alone: registrations and deferred triggers, the store silent
NextCore ==
    \/ \E key \in Keys, value \in Values : set(key, value)
    \/ \E key \in Keys : get(key)
    \/ \E key \in Keys : delete(key)
    \/ nextTick

SpecCore == Init /\ [][NextCore]_vars

\* ------------------------------------------------------------------ claims
Writes == {"set", "setex"}
Cmds(b) == batches[b].cmds
\* a command of callback cb is among cmds
InCmds(cb, cmds) == \E c \in Indices(cmds) : cmds[c].cb = cb
\* the registrations made, and the batches submitted, in window e: after e
\* deferred triggers had fired and before the next one had
WindowRegs(e) == {i \in Indices(reg) : reg[i].epoch = e}
WindowBatches(e) == {b \in Indices(batches) : batches[b].epoch = e}
\* nothing is pending, no trigger is queued, the store has answered every
\* command of every batch submitted
Quiescent ==
    /\ sets = <<>> /\ gets = <<>> /\ deletes = <<>>
    /\ tickQueue = 0
    /\ failed = {}
    /\ ~HasOpen

\* C1: every registered callback is invoked exactly once: never twice, and once
\* everything submitted has been answered and nothing is pending, not zero times.
C1_ExactlyOnce ==
    /\ \A i \in Indices(reg) : Len(calls[i]) <= 1
    /\ Quiescent => \A i \in Indices(reg) : ~reg[i].threw => Len(calls[i]) = 1

\* C2: when the registrations of a window that a deferred trigger has closed
\* are sets on pairwise distinct keys, exactly one batch was submitted for the
\* window and it holds exactly one write per registered key.
OnlyDistinctSets(e) ==
    /\ WindowRegs(e) # {}
    /\ \A i \in WindowRegs(e) : reg[i].op = "set"
    /\ \A i, j \in WindowRegs(e) : i # j => reg[i].key # reg[j].key

C2_Coalescing ==
    \A e \in 0..(ticks - 1) :
      OnlyDistinctSets(e) =>
        \E b \in Indices(batches) :
          /\ WindowBatches(e) = {b}
          /\ Len(Cmds(b)) = Cardinality(WindowRegs(e))
          /\ \A i \in WindowRegs(e) :
               \E c \in Indices(Cmds(b)) :
                 /\ Cmds(b)[c].op \in Writes
                 /\ Cmds(b)[c].key = reg[i].key
                 /\ Cmds(b)[c].cb = i

\* C3: set(K, v1, cb1) then set(K, v2, cb2) in one window, both values
\* serializable, every queued trigger fired: exactly two batches were
\* submitted, the first (forced) holding exactly the first set, the second
\* exactly the second set.
TwoSetsSameKey ==
    /\ Len(reg) = 2
    /\ reg[1].op = "set" /\ reg[2].op = "set"
    /\ reg[1].key = reg[2].key
    /\ reg[1].epoch = reg[2].epoch
    /\ ~StringifyThrows(reg[1].value) /\ ~StringifyThrows(reg[2].value)

C3_ExactlyTwoBatches ==
    (TwoSetsSameKey /\ tickQueue = 0) =>
        /\ Len(batches) = 2
        /\ batches[1].forced
        /\ Len(Cmds(1)) = 1 /\ Cmds(1)[1].op \in Writes /\ Cmds(1)[1].cb = 1
        /\ Len(Cmds(2)) = 1 /\ Cmds(2)[1].op \in Writes /\ Cmds(2)[1].cb = 2

\* C4: a registration forces a flush exactly when an operation of its own kind
\* is pending for its key; a get registered next to a pending set of its key
\* (and a set next to a pending get) submits nothing and leaves both pending;
\* and a flush that runs while a set and a get of one key are pending puts
\* both commands into the one batch it submits.
SameKindPending(r) ==
    CASE r.op = "set" -> MapHas(sets, r.key)
      [] r.op = "get" -> MapHas(gets, r.key)
      [] OTHER -> MapHas(deletes, r.key)

CrossKindOnly(r) ==
    \/ r.op = "get" /\ MapHas(sets, r.key) /\ ~MapHas(gets, r.key)
    \/ r.op = "set" /\ MapHas(gets, r.key) /\ ~MapHas(sets, r.key)

\* delete(key) removes the pending set of its key before it tests for a conflict
DropsSet(key) ==
    /\ Len(reg') = Len(reg) + 1
    /\ reg'[Len(reg')].op = "delete"
    /\ reg'[Len(reg')].key = key

C4_Step ==
    /\ Len(reg') = Len(reg) + 1 =>
         LET r == reg'[Len(reg')]
         IN /\ r.forced <=> SameKindPending(r)
            /\ CrossKindOnly(r) =>
                 /\ batches' = batches
                 /\ ~r.threw
                 /\ MapHas(sets', r.key) /\ MapHas(gets', r.key)
    /\ Len(batches') = Len(batches) + 1 =>
         \A key \in Keys :
           (MapHas(sets, key) /\ MapHas(gets, key) /\ ~DropsSet(key)) =>
             \A i \in Indices(sets), j \in Indices(gets) :
               (sets[i].key = key /\ gets[j].key = key) =>
                 /\ InCmds(sets[i].callback, batches'[Len(batches')].cmds)
                 /\ InCmds(gets[j].callback, batches'[Len(batches')].cmds)

C5_Scenario(i, j) ==
    /\ reg[i].op = "set" /\ reg[j].op = "get" /\ reg[i].key = reg[j].key
    /\ \A n \in Indices(reg) : reg[n].epoch = 0
    /\ \A n \in Indices(reg) \ {j} : reg[n].op = "set"
    /\ \A n, m \in Indices(reg) \ {j} : n # m => reg[n].key # reg[m].key
    /\ ticks >= 1
    /\ failed = {} /\ ~HasOpen
    /\ \A b \in Indices(replies) : \A c \in Indices(replies[b]) :
         replies[b][c].error = Null

C5_ReadSeesWrite ==
    \A i, j \in Indices(reg) :
      C5_Scenario(i, j) =>
        /\ Len(batches) = 1
        /\ Len(Cmds(1)) = Len(reg)
        /\ \A n \in Indices(reg) :
             \E c \in Indices(Cmds(1)) :
               /\ Cmds(1)[c].cb = n
               /\ Cmds(1)[c].key = reg[n].key
               /\ Cmds(1)[c].op \in (IF n = j THEN {"get"} ELSE Writes)
        /\ calls[j] = << <<Null, reg[i].value>> >>

\* C6: a read command the store answered with no value (null) invoked the
\* get's callback exactly with (err, null), err being the error value of that
\* answer (null when the store reported none).
Answered(b) == 1..Len(replies[b])

C6_MissingKey ==
    \A b \in Indices(batches) : \A c \in Answered(b) :
      (Cmds(b)[c].op = "get" /\ replies[b][c].result = Null) =>
        calls[Cmds(b)[c].cb] = << <<replies[b][c].error, Null>> >>

\* the store answered a read with an error and no value, and another read with
\* neither
C6_Witness ==
    /\ \E b \in Indices(batches) : \E c \in Answered(b) :
         /\ Cmds(b)[c].op = "get"
         /\ replies[b][c] = [error |-> StoreErr, result |-> Null]
    /\ \E b \in Indices(batches) : \E c \in Answered(b) :
         /\ Cmds(b)[c].op = "get"
         /\ replies[b][c] = [error |-> Null, result |-> Null]

\* C7: with a positive expiration configured every write command of every
\* batch is a write-with-expiration carrying that value; with a zero or absent
\* expiration every write command is a plain write without one.
Positive(t) == t # <<>> /\ t[1] > 0

C7_Expiration ==
    \A b \in Indices(batches) : \A c \in Indices(Cmds(b)) :
      Cmds(b)[c].op \in Writes =>
        IF Positive(ttl)
        THEN Cmds(b)[c].op = "setex" /\ Cmds(b)[c].exp = ttl
        ELSE Cmds(b)[c].op = "set" /\ Cmds(b)[c].exp = <<>>

\* a batch with two writes was submitted under a positive expiration
C7_Witness ==
    /\ Positive(ttl)
    /\ \E b \in Indices(batches) :
         /\ Len(Cmds(b)) >= 2
         /\ Cmds(b)[1].op = "setex" /\ Cmds(b)[2].op = "setex"

\* C8: when the submission of a batch failed as a whole, the callback of every
\* operation of that batch has been invoked with the transport error.
TransportErr == "TransportErr"

C8_TransportError ==
    \A b \in failed : \A c \in Indices(Cmds(b)) :
      calls[Cmds(b)[c].cb] = << <<TransportErr>> >>

\* C9: the error the store reported for a command is the error argument its
\* callback received, and a callback whose command the store answered without
\* error received no store error.
C9_CommandError ==
    \A b \in Indices(batches) : \A c \in Answered(b) :
      LET args == calls[Cmds(b)[c].cb]
      IN /\ Len(args) = 1
         /\ IF replies[b][c].error # Null
            THEN args[1][1] = replies[b][c].error
            ELSE args[1][1] # StoreErr

\* C10: no call to set, get or delete raised to its caller.
C10_NeverThrows == \A i \in Indices(reg) : ~reg[i].threw

\* C11: in every batch the writes come first, then the deletes, then the
\* reads, and two commands of one kind stand in the order of registration.
KindRank(op) == CASE op \in Writes -> 1 [] op = "del" -> 2 [] OTHER -> 3

C11_KindGrouped ==
    \A b \in Indices(batches) : \A c, d \in Indices(Cmds(b)) :
      c < d =>
        /\ KindRank(Cmds(b)[c].op) <= KindRank(Cmds(b)[d].op)
        /\ KindRank(Cmds(b)[c].op) = KindRank(Cmds(b)[d].op) =>
             Cmds(b)[c].cb < Cmds(b)[d].cb

\* a batch of three commands: a read registered first stands after two writes
C11_Witness ==
    \E b \in Indices(batches) :
      /\ Len(Cmds(b)) = 3
      /\ Cmds(b)[1].op \in Writes /\ Cmds(b)[2].op \in Writes
      /\ Cmds(b)[3].op = "get"
      /\ Cmds(b)[3].cb < Cmds(b)[1].cb

\* C12: a flush, deferred or forced, submits one batch with a command for
\* every operation in the three mappings when it starts and leaves the three
\* mappings empty; after a deferred trigger's flush nothing is pending.
Pending(s, d, g) ==
    {s[i].callback : i \in Indices(s)} \cup {d[i].callback : i \in Indices(d)}
      \cup {g[i].callback : i \in Indices(g)}

Submits(cbs) ==
    /\ Len(batches') = Len(batches) + 1
    /\ {batches'[Len(batches')].cmds[c].cb :
          c \in Indices(batches'[Len(batches')].cmds)} = cbs
    /\ Len(batches'[Len(batches')].cmds) = Cardinality(cbs)

C12_Step ==
    /\ ticks' = ticks + 1 =>
         /\ Submits(Pending(sets, deletes, gets))
         /\ sets' = <<>> /\ deletes' = <<>> /\ gets' = <<>>
    /\ (Len(reg') = Len(reg) + 1 /\ SameKindPending(reg'[Len(reg')])) =>
         LET r == reg'[Len(reg')]
             s == IF r.op = "delete" THEN MapDelete(sets, r.key) ELSE sets
         IN /\ Submits(Pending(s, deletes, gets))
            /\ Pending(sets', deletes', gets') = {Len(reg')}

C12_FlushDrains == [][C12_Step]_vars

\* C13: at most one deferred flush trigger is queued.
C13_OneTrigger == tickQueue <= 1

\* C14: a registration that finds an operation of its own kind pending for its
\* key inserts the new operation only after a flush has submitted everything
\* pending in the three mappings as one batch; the entry it collides with is
\* either in that batch or, when the flush threw, still pending and not
\* replaced; and no mapping ever holds two entries for one key.
SameKindCbs(r) ==
    LET m == CASE r.op = "set" -> sets [] r.op = "get" -> gets
               [] OTHER -> deletes
    IN {m[i].callback : i \in {n \in Indices(m) : m[n].key = r.key}}

UniqueKeys(m) == \A i, j \in Indices(m) : m[i].key = m[j].key => i = j

C14_Step ==
    /\ UniqueKeys(sets') /\ UniqueKeys(gets') /\ UniqueKeys(deletes')
    /\ (Len(reg') = Len(reg) + 1 /\ SameKindPending(reg'[Len(reg')])) =>
         LET r == reg'[Len(reg')]
             s == IF r.op = "delete" THEN MapDelete(sets, r.key) ELSE sets
         IN IF r.threw
            THEN /\ Len(reg') \notin Pending(sets', deletes', gets')
                 /\ SameKindCbs(r) \subseteq Pending(sets', deletes', gets')
                 /\ batches' = batches
            ELSE /\ Submits(Pending(s, deletes, gets))
                 /\ SameKindCbs(r) \subseteq Pending(s, deletes, gets)
                 /\ Len(reg') \in Pending(sets', deletes', gets')

C14_ForcedFlushFirst == [][C14_Step]_vars

\* a forced flush submitted a batch holding the collided write and a read of
\* another kind's mapping
C14_Witness ==
    \E b \in Indices(batches) :
      /\ batches[b].forced
      /\ Len(Cmds(b)) >= 2
      /\ Cmds(b)[1].op \in Writes
      /\ Cmds(b)[Len(Cmds(b))].op = "get"
      /\ \E i \in Indices(reg) :
           /\ reg[i].forced /\ ~reg[i].threw /\ reg[i].op = "set"
           /\ reg[i].key = Cmds(b)[1].key

\* C15: a read command answered with a value that is not null and that
\* JSON.parse rejects invoked the get's callback once, with the parse error
\* alone; and every callback has been invoked once if the store has answered
\* its command and not at all otherwise.
Undecodable == {Garbage, Undefined}

C15_DecodeError ==
    \A b \in Indices(batches) : \A c \in Indices(Cmds(b)) :
      /\ Len(calls[Cmds(b)[c].cb]) = (IF c \in Answered(b) THEN 1 ELSE 0)
      /\ (c \in Answered(b) /\ Cmds(b)[c].op = "get"
            /\ replies[b][c].result \in Undecodable) =>
           calls[Cmds(b)[c].cb] = << <<SyntaxError>> >>

\* the store answered a read with stored text that is not JSON, without error,
\* in a batch with another command
C15_Witness ==
    \E b \in Indices(batches) : \E c \in Answered(b) :
      /\ Len(Cmds(b)) >= 2
      /\ Cmds(b)[c].op = "get"
      /\ replies[b][c] = [error |-> Null, result |-> Garbage]

\* C16: a read command answered with a value that deserializes invoked the
\* get's callback with (null, parsed value), whatever error value the store
\* reported next to it.
Decoded(text) ==
    CASE text = "s1" -> "v1" [] text = "s2" -> "v2" [] text = "snull" -> Null

C16_ErrorDiscarded ==
    \A b \in Indices(batches) : \A c \in Answered(b) :
      (Cmds(b)[c].op = "get" /\ replies[b][c].result \in {"s1", "s2", "snull"})
        => calls[Cmds(b)[c].cb] = << <<Null, Decoded(replies[b][c].result)>> >>

\* the store answered a read with a store error next to a value that parses
C16_Witness ==
    \E b \in Indices(batches) : \E c \in Answered(b) :
      /\ Cmds(b)[c].op = "get"
      /\ replies[b][c] = [error |-> StoreErr, result |-> "s1"]

\* C17: between calls, when any of the three mappings is non-empty the armed
\* flag is true and a deferred trigger is queued.
C17_PendingIsArmed ==
    Pending(sets, deletes, gets) # {} => timeoutSet /\ tickQueue >= 1

\* C18 as claimed: delete(K) leaves the get mapping unchanged and takes
\* nothing but the entry of K out of the set mapping.
WithoutKey(m, key) == SelectSeq(m, LAMBDA e : e.key # key)
IsDelete == Len(reg') = Len(reg) + 1 /\ reg'[Len(reg')].op = "delete"

C18_Original_Step ==
    IsDelete =>
      /\ gets' = gets
      /\ sets' = WithoutKey(sets, reg'[Len(reg')].key)

C18_Original == [][C18_Original_Step]_vars

\* C18 amended: delete(K) takes the pending set of K out of the set mapping,
\* and that set's callback is in no batch. With no delete of K pending nothing
\* else changes but the delete mapping, which gains the new entry. With a
\* delete of K pending the forced flush submits and clears what is left in
\* the three mappings before the new delete is inserted; when that flush
\* throws the mappings stay as they are apart from the removed set.
DroppedCbs(key) ==
    {sets[i].callback : i \in {n \in Indices(sets) : sets[n].key = key}}

C18_Step ==
    IsDelete =>
      LET r == reg'[Len(reg')]
          s == WithoutKey(sets, r.key)
          entry == [key |-> r.key, callback |-> Len(reg')]
      IN /\ DroppedCbs(r.key) \cap Pending(sets', deletes', gets') = {}
         /\ \A b \in Indices(batches') :
              \A c \in Indices(batches'[b].cmds) :
                batches'[b].cmds[c].cb \notin DroppedCbs(r.key)
         /\ IF ~MapHas(deletes, r.key)
            THEN /\ sets' = s /\ gets' = gets
                 /\ deletes' = Append(deletes, entry)
                 /\ batches' = batches
            ELSE IF r.threw
            THEN /\ sets' = s /\ gets' = gets /\ deletes' = deletes
                 /\ batches' = batches
            ELSE /\ Submits(Pending(s, deletes, gets))
                 /\ sets' = <<>> /\ gets' = <<>> /\ deletes' = <<entry>>

C18_DeleteFrame == [][C18_Step]_vars

\* delete(K) has removed the pending set of K, registered in the same window,
\* next to a pending get
C18_Witness ==
    \E i, j \in Indices(reg) :
      /\ i < j
      /\ reg[i].op = "set" /\ reg[j].op = "delete" /\ reg[i].key = reg[j].key
      /\ reg[i].epoch = ticks /\ reg[j].epoch = ticks
      /\ ~reg[j].forced
      /\ i \notin Pending(sets, deletes, gets)
      /\ j \in Pending(sets, deletes, gets)
      /\ gets # <<>>
      /\ batches = <<>>

\* C19: all registrations made in the first window with values that
\* serialize, the window's batches submitted and every command answered by
\* the store without error: for every key the store holds the effect of the
\* last set or delete registered for it.
Mutations(key) ==
    {i \in Indices(reg) : reg[i].key = key /\ reg[i].op \in {"set", "delete"}}

LastMutation(key) ==
    CHOOSE i \in Mutations(key) : \A j \in Mutations(key) : j <= i

C19_WindowApplied ==
    /\ \A i \in Indices(reg) :
         reg[i].epoch = 0 /\ ~StringifyThrows(reg[i].value)
    /\ ticks >= 1
    /\ failed = {} /\ ~HasOpen
    /\ \A b \in Indices(replies) : \A c \in Indices(replies[b]) :
         replies[b][c].error = Null

C19_LastMutationWins ==
    C19_WindowApplied =>
      \A key \in Keys :
        Mutations(key) # {} =>
          store[key] = (IF reg[LastMutation(key)].op = "set"
                        THEN JSONstringify(reg[LastMutation(key)].value)
                        ELSE Null)

====
